---- MODULE Spec2Model ----
(***************************************************************************)
(* STTS22H temperature sensor driver (stts22h.c / stts22h.h): the device   *)
(* structure STTS22H_Def, the public operations, the poll-driven update    *)
(* cycle and the register decoding, together with the I2C transport the    *)
(* driver talks to (i2c.h, which is outside this library and is modelled   *)
(* at its interface: non-blocking requests that are accepted or refused,   *)
(* and that later complete with or without failure).                       *)
(*                                                                         *)
(* Temperatures (float in the source) are kept in hundredths of a degree   *)
(* Celsius, so that 4.00 is 400 and the sentinel -273.15f is -27315.       *)
(***************************************************************************)
EXTENDS Integers, Sequences, FiniteSets, TLC

VARIABLES
    isInit, isConnected, isReading, addrSent, regAddr, dataSize,
    settings, status, temp, devAddr, i2c,      \* STTS22H_Def
    busState, busSize, busFailed, rxData,      \* the I2C transport
    last,                                      \* the most recent call or transport event
    snap                                       \* cached results when the transaction in flight started

dev  == <<isInit, isConnected, isReading, addrSent, regAddr, dataSize,
          settings, status, temp, devAddr, i2c>>
bus  == <<busState, busSize, busFailed, rxData>>
vars == <<dev, bus, last, snap>>

----------------------------------------------------------------------------
(* Register map and constants *)

WHOAMI == 160

WHOAMI_ADDR == 1

TEMP_H_LIMIT_ADDR == 2

TEMP_L_LIMIT_ADDR == 3

CTRL_ADDR == 4

STATUS_ADDR == 5

TEMP_L_OUT_ADDR == 6

TEMP_H_OUT_ADDR == 7

\* -273.15f, in hundredths of a degree
TEMP_SENTINEL == -27315

\* minTemp < -39.5f and maxTemp > 122.5f, in hundredths of a degree
LIMIT_MIN == -3950

LIMIT_MAX == 12250

\* uint8_t
ByteMax == 255

Byte == 0..ByteMax

NULL == "NULL"

I2C1 == "I2C1"

STTS22H_SUCCESS == "SUCCESS"

STTS22H_NOT_INIT == "NOT_INIT"

STTS22H_WRONG_DATA == "WRONG_DATA"

STTS22H_BUSY == "BUSY"

I2C_SUCCESS == "SUCCESS"

I2C_ERROR == "I2C_ERROR"

\* what a transport request can return
I2CResults == {I2C_SUCCESS, I2C_ERROR}

VOID == "void"

----------------------------------------------------------------------------
(* Bounds: how many of the sample inputs below the model draws from *)

NumByte0 == 3

NumRaw == 1

NumCtrl == 1

NumLimit == 3

Byte0Seq == <<0, 160, 3, 6, 5, 161, 7>>

RawSeq == <<<<144, 1>>, <<112, 254>>, <<0, 0>>, <<255, 127>>, <<0, 128>>>>

CtrlSeq == <<12, 1, 255, 0>>

\* <<minTemp, maxTemp, isSetLimits>>, the temperatures in hundredths of a degree
LimitSeq == <<<<-3950, 12250, TRUE>>, <<-3951, 0, TRUE>>, <<0, 12251, FALSE>>,
              <<0, 0, FALSE>>, <<-3951, 12251, TRUE>>, <<6400, -6400, TRUE>>>>

Prefix(s, n) == {s[i] : i \in 1..(IF n < Len(s) THEN n ELSE Len(s))}

Byte0Sample == Prefix(Byte0Seq, NumByte0)

RawSample == Prefix(RawSeq, NumRaw)

CtrlSample == Prefix(CtrlSeq, NumCtrl)

LimitSample == Prefix(LimitSeq, NumLimit)

AddrSample == {0, 60}

HandleSample == {NULL, I2C1}

----------------------------------------------------------------------------
(* The record of the most recent call: operation, arguments, return value  *)
(* and the request it made to the transport, if any.                       *)

NoBus == [kind |-> "none", addr |-> 0, data |-> <<>>, size |-> 0, stop |-> FALSE]

WriteReq(addr, data, stop) ==
    [kind |-> "write", addr |-> addr, data |-> data, size |-> Len(data), stop |-> stop]

ReadReq(addr, size) ==
    [kind |-> "read", addr |-> addr, data |-> <<>>, size |-> size, stop |-> FALSE]

\* io is what the transport answered to the request ("none" without a request)
Call(op, args, ret, req, io) ==
    [op |-> op, args |-> args, ret |-> ret, bus |-> req, io |-> io, path |-> "call"]

\* STTS22H_update returns nothing: path names the branch it took, "skip" (an
\* early return), "request" (the read was requested), "decoded" (the read
\* ended without failure) or "failed" (the read ended with failure)
Updated(path, req, io) ==
    [op |-> "update", args |-> <<>>, ret |-> VOID, bus |-> req, io |-> io, path |-> path]

\* by is the operation that started the transaction ("none" without one)
Cached ==
    [isConnected |-> isConnected, status |-> status, temp |-> temp, by |-> "none"]

\* snap keeps the cached results as they were when the transaction in flight
\* was started, and the operation that started it; with no transaction in
\* flight it is the current results
Snapshot ==
    snap' = IF isReading'
            THEN (IF isReading THEN snap ELSE [Cached EXCEPT !.by = last'.op])
            ELSE [isConnected |-> isConnected', status |-> status', temp |-> temp',
                  by |-> "none"]

----------------------------------------------------------------------------
(* The I2C transport (i2c.h): non-blocking requests and activity probes.   *)
(* A request is accepted (I2C_SUCCESS) or refused; an accepted one is in   *)
(* progress until the transport completes it, with or without failure.     *)

I2C_isReading == busState = "reading"

I2C_isWriting == busState = "writing"

I2C_isFailed == busFailed

I2C_getReceivedData == rxData

I2C_writeData(data, result) ==
    /\ busState' = IF result = I2C_SUCCESS THEN "writing" ELSE busState
    /\ busSize' = IF result = I2C_SUCCESS THEN Len(data) ELSE busSize
    /\ UNCHANGED <<busFailed, rxData>>

I2C_readData(size, result) ==
    /\ busState' = IF result = I2C_SUCCESS THEN "reading" ELSE busState
    /\ busSize' = IF result = I2C_SUCCESS THEN size ELSE busSize
    /\ UNCHANGED <<busFailed, rxData>>

\* the bytes a read of n bytes leaves in the receive buffer
Received(n, b0, raw) ==
    [i \in 1..3 |-> IF i > n THEN rxData[i]
                    ELSE IF i = 1 THEN b0 ELSE raw[i - 1]]

\* the transfer in progress ends: the transport goes idle, reports whether
\* the transfer failed, and after a read holds the received bytes
I2C_complete(B0, Raw, Fail) ==
    /\ busState # "idle"
    /\ busState' = "idle"
    /\ busFailed' \in Fail
    /\ IF busState = "reading"
       THEN \E b0 \in B0, raw \in Raw : rxData' = Received(busSize, b0, raw)
       ELSE UNCHANGED rxData
    /\ UNCHANGED busSize
    /\ last' = Call("I2C_complete", <<>>, VOID, NoBus, "none")
    /\ UNCHANGED dev
    /\ Snapshot

----------------------------------------------------------------------------
(* The driver *)

Bit(b, n) == (b \div (2 ^ n)) % 2

\* the initialisation check forgotten
IsInit_always == TRUE

IsInit == isInit

\* the busy check forgotten
IsReading_never == FALSE

IsReading == isReading

\* the address check forgotten
InitArgsInvalid_handleOnly(h, a) == h = NULL

InitArgsInvalid(h, a) == h = NULL \/ a = 0

\* the whole structure cleared before it is filled in
STTS22H_init_reset(h, a) ==
    IF InitArgsInvalid(h, a)
    THEN /\ last' = Call("init", <<h, a>>, STTS22H_WRONG_DATA, NoBus, "none")
         /\ UNCHANGED <<dev, bus>>
         /\ Snapshot
    ELSE /\ i2c' = h
         /\ devAddr' = a
         /\ temp' = TEMP_SENTINEL
         /\ isInit' = TRUE
         /\ isConnected' = FALSE /\ isReading' = FALSE /\ addrSent' = FALSE
         /\ regAddr' = 0 /\ dataSize' = 0 /\ settings' = 0 /\ status' = 0
         /\ last' = Call("init", <<h, a>>, STTS22H_SUCCESS, NoBus, "none")
         /\ UNCHANGED bus
         /\ Snapshot

STTS22H_init(h, a) ==
    IF InitArgsInvalid(h, a)
    THEN /\ last' = Call("init", <<h, a>>, STTS22H_WRONG_DATA, NoBus, "none")
         /\ UNCHANGED <<dev, bus>>
         /\ Snapshot
    ELSE /\ i2c' = h
         /\ devAddr' = a
         /\ temp' = TEMP_SENTINEL
         /\ isInit' = TRUE
         /\ last' = Call("init", <<h, a>>, STTS22H_SUCCESS, NoBus, "none")
         /\ UNCHANGED <<isConnected, isReading, addrSent, regAddr, dataSize,
                        settings, status, bus>>
         /\ Snapshot

\* the transport's answer to the address write ignored
BusyAfter_always(result) == TRUE

\* isReading after the address write was requested
BusyAfter(result) == IF result = I2C_SUCCESS THEN TRUE ELSE isReading

STTS22H_checkConnection ==
    IF ~IsInit
    THEN /\ last' = Call("checkConnection", <<>>, STTS22H_NOT_INIT, NoBus, "none")
         /\ UNCHANGED <<dev, bus>>
         /\ Snapshot
    ELSE IF IsReading
    THEN /\ last' = Call("checkConnection", <<>>, STTS22H_BUSY, NoBus, "none")
         /\ UNCHANGED <<dev, bus>>
         /\ Snapshot
    ELSE \E result \in I2CResults :
         /\ regAddr' = WHOAMI_ADDR
         /\ dataSize' = 1
         /\ I2C_writeData(<<WHOAMI_ADDR>>, result)
         /\ isReading' = BusyAfter(result)
         /\ last' = Call("checkConnection", <<>>, result,
                         WriteReq(devAddr, <<WHOAMI_ADDR>>, FALSE), result)
         /\ UNCHANGED <<isInit, isConnected, addrSent, settings, status, temp,
                        devAddr, i2c>>
         /\ Snapshot

STTS22H_isConnected == isConnected

\* the written value cached whatever the transport answered
SettingsAfter_always(controlReg, result) == controlReg

\* settings.full after the control write was requested
SettingsAfter(controlReg, result) ==
    IF result = I2C_SUCCESS THEN controlReg ELSE settings

STTS22H_setting(controlReg) ==
    IF ~IsInit
    THEN /\ last' = Call("setting", <<controlReg>>, STTS22H_NOT_INIT, NoBus, "none")
         /\ UNCHANGED <<dev, bus>>
         /\ Snapshot
    ELSE \E result \in I2CResults :
         /\ I2C_writeData(<<CTRL_ADDR, controlReg>>, result)
         /\ settings' = SettingsAfter(controlReg, result)
         /\ last' = Call("setting", <<controlReg>>, result,
                         WriteReq(devAddr, <<CTRL_ADDR, controlReg>>, TRUE), result)
         /\ UNCHANGED <<isInit, isConnected, isReading, addrSent, regAddr,
                        dataSize, status, temp, devAddr, i2c>>
         /\ Snapshot

\* C truncates a float towards zero when it converts it to an integer
TruncDiv(a, b) == IF a >= 0 THEN a \div b ELSE -((-a) \div b)

\* The multiples of 0.64 (in hundredths of a degree) for which the single
\* precision quotient value / 0.64f falls just short of the whole number, so
\* that the sum with 63.0f is just short of a whole number too.
FloatShort == {-3904, -3840, -3520, -3456, -3136, -2304, -2112}

\* the conversion rounding to the nearest code
calculateThreshold_rounded(value) ==
    LET t == (2 * (value + 63 * 64) + 64) \div 128
    IN  IF t \in Byte THEN {t} ELSE Byte

\* value / 0.64f + 63.0f converted to uint8_t, value in hundredths of a
\* degree. The conversion is undefined when the truncated value does not
\* fit a uint8_t: any byte may result.
calculateThreshold(value) ==
    LET t == TruncDiv(value + 63 * 64, 64) - (IF value \in FloatShort THEN 1 ELSE 0)
    IN  IF t \in Byte THEN {t} ELSE Byte

\* && written for ||
LimitsOutOfRange_both(minTemp, maxTemp) == minTemp < LIMIT_MIN /\ maxTemp > LIMIT_MAX

LimitsOutOfRange(minTemp, maxTemp) == minTemp < LIMIT_MIN \/ maxTemp > LIMIT_MAX

STTS22H_setLimits(minTemp, maxTemp, isSetLimits) ==
    IF ~IsInit
    THEN /\ last' = Call("setLimits", <<minTemp, maxTemp, isSetLimits>>,
                         STTS22H_NOT_INIT, NoBus, "none")
         /\ UNCHANGED <<dev, bus>>
         /\ Snapshot
    ELSE IF LimitsOutOfRange(minTemp, maxTemp)
    THEN /\ last' = Call("setLimits", <<minTemp, maxTemp, isSetLimits>>,
                         STTS22H_WRONG_DATA, NoBus, "none")
         /\ UNCHANGED <<dev, bus>>
         /\ Snapshot
    ELSE \E result \in I2CResults :
         \E hi \in (IF isSetLimits THEN calculateThreshold(maxTemp) ELSE {0}),
            lo \in (IF isSetLimits THEN calculateThreshold(minTemp) ELSE {0}) :
         /\ I2C_writeData(<<TEMP_H_LIMIT_ADDR, hi, lo>>, result)
         /\ last' = Call("setLimits", <<minTemp, maxTemp, isSetLimits>>, result,
                         WriteReq(devAddr, <<TEMP_H_LIMIT_ADDR, hi, lo>>, TRUE), result)
         /\ UNCHANGED dev
         /\ Snapshot

STTS22H_measure ==
    IF ~IsInit
    THEN /\ last' = Call("measure", <<>>, STTS22H_NOT_INIT, NoBus, "none")
         /\ UNCHANGED <<dev, bus>>
         /\ Snapshot
    ELSE IF IsReading
    THEN /\ last' = Call("measure", <<>>, STTS22H_BUSY, NoBus, "none")
         /\ UNCHANGED <<dev, bus>>
         /\ Snapshot
    ELSE \E result \in I2CResults :
         /\ regAddr' = STATUS_ADDR
         /\ dataSize' = 3
         /\ I2C_writeData(<<STATUS_ADDR>>, result)
         /\ isReading' = BusyAfter(result)
         /\ last' = Call("measure", <<>>, result,
                         WriteReq(devAddr, <<STATUS_ADDR>>, FALSE), result)
         /\ UNCHANGED <<isInit, isConnected, addrSent, settings, status, temp,
                        devAddr, i2c>>
         /\ Snapshot

STTS22H_getTemp_C == temp

\* status.fields.over_thh and status.fields.under_thl
STTS22H_isOverheated == Bit(status, 1) = 1

STTS22H_isOvercooled == Bit(status, 2) = 1

\* the bit-field laid out from the most significant bit
StatusBusy_msb(s) == Bit(s, 7) = 1

\* status.fields.busy of a status byte
StatusBusy(s) == Bit(s, 0) = 1

\* the sign extension forgotten
calculateTemp_unsigned(hOut, lOut) == hOut * (2 ^ 8) + lOut

\* the result is (float) temp / 100.0f: hundredths of a degree
calculateTemp(hOut, lOut) ==
    LET t == hOut * (2 ^ 8) + lOut
    IN  IF t >= 2 ^ 15 THEN t - 2 ^ 16 ELSE t

\* any answer taken for the identity
IdentityMatches_nonzero(b) == b # 0

IdentityMatches(b) == WHOAMI = b

\* the failure check forgotten
ReadSucceeded_always == TRUE

\* the transport's verdict on the read that has just ended
ReadSucceeded == ~I2C_isFailed

\* the switch on regAddr over the received data
Decode(data) ==
    CASE regAddr = WHOAMI_ADDR ->
            /\ isConnected' = IdentityMatches(data[1])
            /\ UNCHANGED <<status, temp>>
      [] regAddr = STATUS_ADDR ->
            /\ status' = data[1]
            /\ temp' = IF ~StatusBusy(data[1])
                       THEN calculateTemp(data[3], data[2])
                       ELSE temp
            /\ UNCHANGED isConnected
      [] OTHER -> UNCHANGED <<isConnected, status, temp>>

\* the write probe forgotten
TransportBusy_readOnly == I2C_isReading

TransportBusy == I2C_isReading \/ I2C_isWriting

\* the register address passed for the byte count
ReadSize_regAddr == regAddr

\* the byte count of the data read
ReadSize == dataSize

STTS22H_update ==
    IF ~IsInit \/ ~IsReading \/ TransportBusy
    THEN /\ last' = Updated("skip", NoBus, "none")
         /\ UNCHANGED <<dev, bus>>
         /\ Snapshot
    ELSE IF addrSent
    THEN /\ addrSent' = FALSE
         /\ isReading' = FALSE
         /\ IF ReadSucceeded
            THEN Decode(I2C_getReceivedData)
            ELSE UNCHANGED <<isConnected, status, temp>>
         /\ last' = Updated(IF ReadSucceeded THEN "decoded" ELSE "failed", NoBus, "none")
         /\ UNCHANGED <<isInit, regAddr, dataSize, settings, devAddr, i2c, bus>>
         /\ Snapshot
    ELSE \E result \in I2CResults :
         /\ I2C_readData(ReadSize, result)
         /\ addrSent' = IF result = I2C_SUCCESS THEN TRUE ELSE addrSent
         /\ isReading' = IF result = I2C_SUCCESS THEN isReading ELSE FALSE
         /\ last' = Updated("request", ReadReq(devAddr, ReadSize), result)
         /\ UNCHANGED <<isInit, isConnected, regAddr, dataSize, settings, status,
                        temp, devAddr, i2c>>
         /\ Snapshot

----------------------------------------------------------------------------
(* The program: a zero-filled device structure, an idle transport, and the *)
(* application calling the operations in any order while transfers end.    *)

Init ==
    /\ isInit = FALSE
    /\ isConnected = FALSE
    /\ isReading = FALSE
    /\ addrSent = FALSE
    /\ regAddr = 0
    /\ dataSize = 0
    /\ settings = 0
    /\ status = 0
    /\ temp = 0
    /\ devAddr = 0
    /\ i2c = NULL
    /\ busState = "idle"
    /\ busSize = 0
    /\ busFailed = FALSE
    /\ rxData = <<0, 0, 0>>
    /\ last = Call("start", <<>>, VOID, NoBus, "none")
    /\ snap = Cached

Init_call == \E h \in HandleSample, a \in AddrSample : STTS22H_init(h, a)

Setting_call == \E c \in CtrlSample : STTS22H_setting(c)

SetLimits_call ==
    \E lim \in LimitSample : STTS22H_setLimits(lim[1], lim[2], lim[3])

Transfer_end == I2C_complete(Byte0Sample, RawSample, BOOLEAN)

Next ==
    \/ Init_call
    \/ STTS22H_checkConnection
    \/ Setting_call
    \/ SetLimits_call
    \/ STTS22H_measure
    \/ STTS22H_update
    \/ Transfer_end

Spec == Init /\ [][Next]_vars

----------------------------------------------------------------------------
(* One measurement after initialisation, the sensor answering with any     *)
(* temperature register pair: the decoding over every raw value.           *)

DecodeByte0 == {0, 1}

AllRaw == {<<lo, hi>> : lo \in Byte, hi \in Byte}

InitDecode ==
    /\ isInit = TRUE
    /\ isConnected = FALSE
    /\ isReading = FALSE
    /\ addrSent = FALSE
    /\ regAddr = 0
    /\ dataSize = 0
    /\ settings = 0
    /\ status = 0
    /\ temp = TEMP_SENTINEL
    /\ devAddr = 60
    /\ i2c = I2C1
    /\ busState = "idle"
    /\ busSize = 0
    /\ busFailed = FALSE
    /\ rxData = <<0, 0, 0>>
    /\ last = Call("init", <<I2C1, 60>>, STTS22H_SUCCESS, NoBus, "none")
    /\ snap = Cached

Measure_once == last.op = "init" /\ STTS22H_measure

Transfer_end_any == I2C_complete(DecodeByte0, AllRaw, {FALSE})

NextDecode ==
    \/ Measure_once
    \/ STTS22H_update
    \/ Transfer_end_any

SpecDecode == InitDecode /\ [][NextDecode]_vars

(* Threshold writes on an initialised device, the bounds drawn from a grid *)
(* that reaches both ends of the accepted range, together with calls that  *)
(* disable the thresholds and calls whose bounds lie on the wrong side of   *)
(* the range.                                                              *)

LimitGrid == {-4050, -3951, -3950, 0, 50, 6400, 12250, 12251}

LimitCases ==
    {<<mn, mx, TRUE>> : mn \in LimitGrid, mx \in LimitGrid}
    \cup {<<0, 0, FALSE>>, <<-3950, 12250, FALSE>>, <<0, 12251, FALSE>>,
          <<20000, 0, TRUE>>, <<6400, -6400, TRUE>>}

SetLimits_any == \E lim \in LimitCases : STTS22H_setLimits(lim[1], lim[2], lim[3])

NextLimits ==
    \/ SetLimits_any
    \/ Transfer_end

SpecLimits == InitDecode /\ [][NextLimits]_vars

(* The program with the update cycle polled again and again, every         *)
(* transfer in progress ending, and a transport that, while a transfer is  *)
(* in progress, accepts no other request.                                  *)

ExclusiveTransport == busState # "idle" => last'.io # I2C_SUCCESS

LiveNext ==
    \/ Init_call /\ ExclusiveTransport
    \/ STTS22H_checkConnection /\ ExclusiveTransport
    \/ Setting_call /\ ExclusiveTransport
    \/ SetLimits_call /\ ExclusiveTransport
    \/ STTS22H_measure /\ ExclusiveTransport
    \/ STTS22H_update /\ ExclusiveTransport
    \/ Transfer_end /\ ExclusiveTransport

LiveSpec ==
    Init /\ [][LiveNext]_vars /\ WF_vars(STTS22H_update) /\ WF_vars(Transfer_end)

----------------------------------------------------------------------------
(* Properties *)

\* the step is a call of one of the operations named
Calls(ops) == last'.op \in ops

NoTransfer == last'.bus.kind = "none" /\ UNCHANGED bus

\* STTS22H_update runs with a transaction in flight and the transport idle
Advancing == isInit /\ isReading /\ busState = "idle" /\ Calls({"update"})

\* ... in the read-pending phase: the data read has ended
ReadEnded == Advancing /\ addrSent

\* C1: with a transaction in flight, checkConnection and measure return
\* STTS22H_BUSY, make no transport request and leave isReading, addrSent,
\* regAddr and dataSize as they were.
C1_TriggerWhileBusy ==
    [][(isInit /\ isReading /\ Calls({"checkConnection", "measure"}))
        => /\ last'.ret = STTS22H_BUSY
           /\ NoTransfer
           /\ UNCHANGED <<isReading, addrSent, regAddr, dataSize>>]_vars

C1_Witness ==
    /\ isReading /\ addrSent /\ busState = "reading"
    /\ last.op = "measure" /\ last.ret = STTS22H_BUSY

\* C2: with a transaction in flight, setting and setLimits are rejected
\* without a transport request.
C2_ConfigWhileBusy ==
    [][(isInit /\ isReading /\ Calls({"setting", "setLimits"}))
        => last'.bus.kind = "none"]_vars

\* C3: before initialisation checkConnection, setting, setLimits and measure
\* return STTS22H_NOT_INIT, update returns, and none of them makes a
\* transport request or changes the device structure.
C3_NotInit ==
    [][(~isInit /\ Calls({"checkConnection", "setting", "setLimits", "measure", "update"}))
        => /\ last'.ret = IF last'.op = "update" THEN VOID ELSE STTS22H_NOT_INIT
           /\ NoTransfer
           /\ UNCHANGED dev]_vars

C3_Witness ==
    /\ ~isInit
    /\ last.op = "setLimits" /\ last.ret = STTS22H_NOT_INIT
    /\ last.args[1] < -3950

\* C4 as claimed: a read that ended in failure leaves the device not busy,
\* with isConnected, status and temp as they were when the transaction was
\* started.
C4_FailedReadRestoresStart ==
    [][(ReadEnded /\ busFailed)
        => /\ ~isReading' /\ ~addrSent'
           /\ isConnected' = snap.isConnected
           /\ status' = snap.status
           /\ temp' = snap.temp]_vars

\* C4 as amended: a read that ended in failure leaves the device not busy,
\* with isConnected and status as they were when the transaction was started
\* and temp as it was before the update: the value from the start of the
\* transaction, or the sentinel when STTS22H_init ran during the transaction.
C4_FailedReadKeepsCache ==
    [][(ReadEnded /\ busFailed)
        => /\ ~isReading' /\ ~addrSent'
           /\ isConnected' = snap.isConnected
           /\ status' = snap.status
           /\ temp' = temp
           /\ temp' \in {snap.temp, -27315}]_vars

C4_Witness ==
    /\ last.op = "update" /\ last.path = "failed"
    /\ ~isReading /\ ~addrSent /\ busFailed
    /\ regAddr = STATUS_ADDR /\ temp = 400 /\ rxData[1] = 3

\* C5: an update that finds the transport idle after a failed transfer, in
\* either phase, ends the transaction without decoding and leaves
\* isConnected, status and temp as they were.
C5_FailureAborts ==
    [][(Advancing /\ busFailed)
        => /\ ~isReading'
           /\ last'.path # "decoded"
           /\ UNCHANGED <<isConnected, status, temp>>]_vars

\* C6: a status read that ended without failure with bit 0 of byte 0 set
\* stores byte 0 in status (over_thh and under_thl are its bits 1 and 2) and
\* leaves temp as it was.
C6_BusyStatus ==
    [][(ReadEnded /\ ~busFailed /\ regAddr = STATUS_ADDR /\ rxData[1] % 2 = 1)
        => /\ status' = rxData[1]
           /\ STTS22H_isOverheated' = ((rxData[1] \div 2) % 2 = 1)
           /\ STTS22H_isOvercooled' = ((rxData[1] \div 4) % 2 = 1)
           /\ temp' = temp]_vars

C6_Witness ==
    /\ last.op = "update" /\ last.path = "decoded" /\ regAddr = STATUS_ADDR
    /\ rxData = <<3, 144, 1>>
    /\ status = 3 /\ STTS22H_isOverheated /\ ~STTS22H_isOvercooled
    /\ temp = -27315

\* C7: after measure, the end of the address write, update, the end of the
\* read without failure with bytes [s, lo, hi], bit 0 of s clear, and update,
\* the device is not busy and the temperature is the 16-bit two's complement
\* value of (hi << 8) | lo, in hundredths of a degree.
C7_EndToEnd ==
    (last.op = "update" /\ last.path = "decoded" /\ regAddr = STATUS_ADDR
        /\ rxData[1] % 2 = 0)
    => LET raw == rxData[3] * 256 + rxData[2]
       IN  /\ ~isReading
           /\ STTS22H_getTemp_C \in -32768..32767
           /\ (STTS22H_getTemp_C - raw) % 65536 = 0
           /\ (rxData = <<0, 144, 1>> => STTS22H_getTemp_C = 400)
           /\ (raw = 0 => STTS22H_getTemp_C = 0)
           /\ (raw = 65136 => STTS22H_getTemp_C = -400)

C7_Witness ==
    /\ last.op = "update" /\ last.path = "decoded" /\ ~isReading
    /\ rxData = <<0, 112, 254>> /\ STTS22H_getTemp_C = -400

\* C8: an identity read that ended without failure sets isConnected to
\* whether byte 0 is 0xA0 and leaves status and temp as they were, and
\* isConnected changes in no other step.
C8_Identity ==
    [][/\ (ReadEnded /\ ~busFailed /\ regAddr = WHOAMI_ADDR)
            => /\ STTS22H_isConnected' = (rxData[1] = 160)
               /\ UNCHANGED <<status, temp>>
       /\ (STTS22H_isConnected' # STTS22H_isConnected)
            => (ReadEnded /\ ~busFailed /\ regAddr = WHOAMI_ADDR)]_vars

C8_Witness ==
    /\ last.op = "update" /\ last.path = "decoded" /\ regAddr = WHOAMI_ADDR
    /\ rxData[1] = 160 /\ STTS22H_isConnected

\* C9: with update polled and every transfer ending, a device with a
\* transaction in flight becomes not busy.
C9_BusyEnds == isReading ~> ~isReading

\* C10: on an initialised device setLimits with minTemp < -39.5 or
\* maxTemp > 122.5 returns STTS22H_WRONG_DATA, makes no transport request and
\* changes nothing; otherwise it makes one write request and returns the
\* transport's answer.
C10_SetLimitsRange ==
    [][(isInit /\ Calls({"setLimits"}))
        => IF last'.args[1] < -3950 \/ last'.args[2] > 12250
           THEN /\ last'.ret = STTS22H_WRONG_DATA
                /\ NoTransfer
                /\ UNCHANGED dev
           ELSE /\ last'.bus.kind = "write"
                /\ last'.io \in I2CResults
                /\ last'.ret = last'.io]_vars

C10_Witness ==
    /\ isInit /\ last.op = "setLimits" /\ last.ret = STTS22H_WRONG_DATA
    /\ last.args[3] = FALSE /\ last.args[2] > 12250 /\ last.args[1] >= -3950

\* the call made a write request: the driver accepted its arguments
SetLimitsWrote == last.op = "setLimits" /\ last.bus.kind = "write"

\* value / 0.64 + 63 in 64ths, value in hundredths of a degree
Encoded64(value) == value + 4032

\* code is value / 0.64 + 63 rounded to the nearest whole number
IsRounded(value, code) ==
    LET r == (2 * Encoded64(value) + 64) \div 128
    IN  r \in 0..255 => code = r

\* code is value / 0.64 + 63 truncated towards zero, or one less where the
\* single precision sum falls just short of a whole number
IsTruncated(value, code) ==
    LET n == Encoded64(value)
    IN  /\ code \in 0..255
        /\ (n \in 0..(256 * 64 - 1) => 64 * code <= n /\ n <= 64 * (code + 1))
        /\ (n \in -63..-1 => code = 0)
        /\ (n % 64 # 0 /\ n \in 0..(256 * 64 - 1) => n < 64 * (code + 1))

\* C11 as claimed: an accepted setLimits requests one three-byte write with
\* stop condition, [0x02, highCode, lowCode], the codes being
\* round(maxTemp / 0.64 + 63) and round(minTemp / 0.64 + 63) with thresholds
\* enabled and 0 with thresholds disabled.
C11_RoundedCodes ==
    SetLimitsWrote
    => /\ last.bus.size = 3 /\ last.bus.stop /\ last.bus.data[1] = 2
       /\ IF last.args[3]
          THEN /\ IsRounded(last.args[2], last.bus.data[2])
               /\ IsRounded(last.args[1], last.bus.data[3])
          ELSE last.bus.data[2] = 0 /\ last.bus.data[3] = 0

\* C11 as amended: the codes are maxTemp / 0.64 + 63 and minTemp / 0.64 + 63
\* truncated towards zero (a bound of 0.0 gives 63, 0.5 gives 63 too); a
\* value that does not fit a byte gives an unspecified byte.
C11_TruncatedCodes ==
    SetLimitsWrote
    => /\ last.bus.size = 3 /\ last.bus.stop /\ last.bus.data[1] = 2
       /\ last.bus.addr = devAddr
       /\ IF last.args[3]
          THEN /\ IsTruncated(last.args[2], last.bus.data[2])
               /\ IsTruncated(last.args[1], last.bus.data[3])
               /\ (last.args[2] = 0 => last.bus.data[2] = 63)
               /\ (last.args[1] = 0 => last.bus.data[3] = 63)
          ELSE last.bus.data[2] = 0 /\ last.bus.data[3] = 0

C11_Witness ==
    /\ SetLimitsWrote /\ last.ret = STTS22H_SUCCESS
    /\ last.args = <<0, 50, TRUE>>
    /\ last.bus.data = <<2, 63, 63>>

\* C12: for every pair of bounds setLimits accepts with thresholds enabled,
\* maxTemp / 0.64 + 63 and minTemp / 0.64 + 63 fit an unsigned byte when
\* they are converted: truncated, they lie within 0..255.
C12_CodesFitByte ==
    (SetLimitsWrote /\ last.args[3])
    => /\ Encoded64(last.args[1]) \in -63..(256 * 64 - 1)
       /\ Encoded64(last.args[2]) \in -63..(256 * 64 - 1)

Triggers == {"checkConnection", "measure"}

\* C13: on an initialised device setting(c) requests one two-byte write with
\* stop condition, [0x04, c], and returns the transport's answer; settings
\* becomes c when the write was accepted and is unchanged otherwise, and
\* isReading, addrSent, regAddr and dataSize are never changed.
C13_Setting ==
    [][(isInit /\ Calls({"setting"}))
        => /\ last'.bus = WriteReq(devAddr, <<4, last'.args[1]>>, TRUE)
           /\ last'.io \in I2CResults
           /\ last'.ret = last'.io
           /\ settings' = IF last'.io = I2C_SUCCESS THEN last'.args[1] ELSE settings
           /\ UNCHANGED <<isReading, addrSent, regAddr, dataSize>>]_vars

C13_Witness ==
    /\ isInit /\ last.op = "setting" /\ last.ret = I2C_ERROR
    /\ last.args[1] # settings

\* C14: init with a null handle or address 0 returns STTS22H_WRONG_DATA and
\* changes nothing; otherwise it returns success, sets temp to -273.15 and
\* isInit to true, stores the handle and the address, and makes no
\* transport request.
C14_Init ==
    [][Calls({"init"})
        => IF last'.args[1] = NULL \/ last'.args[2] = 0
           THEN /\ last'.ret = STTS22H_WRONG_DATA
                /\ NoTransfer
                /\ UNCHANGED dev
           ELSE /\ last'.ret = STTS22H_SUCCESS
                /\ NoTransfer
                /\ temp' = -27315
                /\ isInit'
                /\ i2c' = last'.args[1]
                /\ devAddr' = last'.args[2]]_vars

C14_Witness ==
    /\ last.op = "init" /\ last.ret = STTS22H_WRONG_DATA
    /\ last.args = <<I2C1, 0>>
    /\ isInit /\ temp = 400 /\ devAddr = 60

\* C15: update changes nothing and makes no transport request when the
\* device is not initialised, or no transaction is in flight, or the
\* transport has a write or a read in progress.
C15_UpdateSkips ==
    [][(Calls({"update"}) /\ (~isInit \/ ~isReading \/ busState \in {"writing", "reading"}))
        => /\ last'.path = "skip"
           /\ NoTransfer
           /\ UNCHANGED dev]_vars

C15_Witness ==
    /\ isInit /\ isReading /\ ~addrSent /\ busState = "writing"
    /\ last.op = "update" /\ last.path = "skip"

\* C16: update with a transaction in flight, addrSent false and the transport
\* idle requests one read at devAddr of dataSize bytes (1 after
\* checkConnection, 3 after measure) and decodes nothing; accepted, addrSent
\* becomes true and isReading stays true; refused, isReading becomes false,
\* addrSent stays false and isConnected, status and temp are unchanged.
C16_ReadRequest ==
    [][(Advancing /\ ~addrSent)
        => /\ last'.bus = ReadReq(devAddr, dataSize)
           /\ snap.by \in Triggers
           /\ last'.bus.size = IF snap.by = "checkConnection" THEN 1 ELSE 3
           /\ last'.path = "request"
           /\ UNCHANGED <<isConnected, status, temp>>
           /\ IF last'.io = I2C_SUCCESS
              THEN addrSent' /\ isReading'
              ELSE ~isReading' /\ ~addrSent']_vars

C16_Witness ==
    /\ last.op = "update" /\ last.path = "request" /\ last.io = I2C_ERROR
    /\ last.bus.size = 3 /\ regAddr = STATUS_ADDR
    /\ ~isReading /\ ~addrSent /\ temp = 400

\* C17: on an initialised device with no transaction in flight
\* checkConnection and measure request one one-byte write without stop
\* condition (register 0x01, 0x05) and return the transport's answer;
\* isReading becomes true exactly when the write was accepted, and when it
\* was refused addrSent is false and isConnected, status and temp are
\* unchanged.
C17_Trigger ==
    [][(isInit /\ ~isReading /\ Calls(Triggers))
        => /\ last'.bus = WriteReq(devAddr,
                                   <<IF last'.op = "checkConnection" THEN 1 ELSE 5>>, FALSE)
           /\ last'.io \in I2CResults
           /\ last'.ret = last'.io
           /\ isReading' = (last'.io = I2C_SUCCESS)
           /\ (last'.io # I2C_SUCCESS
                => ~addrSent' /\ UNCHANGED <<isConnected, status, temp>>)]_vars

C17_Witness ==
    /\ isInit /\ last.op = "checkConnection" /\ last.ret = I2C_ERROR
    /\ ~isReading /\ ~addrSent /\ temp = 400

\* the update that ends a status read without failure, bit 0 of the status
\* byte clear
TempDecoded ==
    ReadEnded /\ ~busFailed /\ regAddr = STATUS_ADDR /\ rxData[1] % 2 = 0

\* C18 as claimed: on an initialised device temp changes only in the update
\* that ends a status read without failure with the busy bit clear.
C18_TempOnlyDecoded ==
    [][(isInit /\ temp' # temp) => TempDecoded]_vars

\* C18 as amended: temp changes only in that update or in a successful
\* init, which sets it to the sentinel.
C18_TempDecodedOrInit ==
    [][(temp' # temp)
        => \/ TempDecoded
           \/ Calls({"init"}) /\ last'.ret = STTS22H_SUCCESS /\ temp' = -27315]_vars

C18_Witness ==
    /\ last.op = "init" /\ last.ret = STTS22H_SUCCESS /\ temp = -27315
    /\ ~isReading /\ regAddr = STATUS_ADDR /\ status = 0
    /\ rxData = <<0, 144, 1>> /\ ~busFailed

\* C19: addrSent implies isReading; while a transaction is in flight regAddr
\* and dataSize are what the trigger that started it set, (0x01, 1) or
\* (0x05, 3); and a trigger that was accepted leaves addrSent false.
C19_Bookkeeping ==
    /\ addrSent => isReading
    /\ isReading
        => \/ snap.by = "checkConnection" /\ regAddr = 1 /\ dataSize = 1
           \/ snap.by = "measure" /\ regAddr = 5 /\ dataSize = 3
    /\ (last.op \in Triggers /\ last.ret = I2C_SUCCESS) => (isReading /\ ~addrSent)

C19_Witness ==
    /\ isReading /\ addrSent /\ busState = "idle"
    /\ snap.by = "measure" /\ regAddr = 5 /\ dataSize = 3

\* C20: a successful init changes only i2c, devAddr, temp and isInit, so a
\* transaction in flight stays in flight.
C20_InitFrame ==
    [][(Calls({"init"}) /\ last'.ret = STTS22H_SUCCESS)
        => /\ UNCHANGED <<isConnected, isReading, addrSent, regAddr, dataSize,
                          settings, status>>
           /\ NoTransfer]_vars

C20_Witness ==
    /\ last.op = "init" /\ last.ret = STTS22H_SUCCESS
    /\ isReading /\ addrSent /\ busState = "idle" /\ ~busFailed
    /\ regAddr = STATUS_ADDR /\ rxData = <<0, 144, 1>> /\ temp = -27315

====
